---- MODULE Spec2Model ----
(***************************************************************************)
(* State-machine model of ust_download_cache.py: USTDownloadCache, its     *)
(* in-memory map file_cache, the index document file_cache.json, the files *)
(* of the cache directory and the wall clock read by CachedFile.is_expired.*)
(* One action per public operation (get_from_url, save_cache, __init__),   *)
(* each a composition of operators that follow the private methods.        *)
(***************************************************************************)
EXTENDS Integers, Sequences, FiniteSets, TLC

\* ------------------------------------------------------------------ bounds
MaxTime == 2
MaxTTL == 1
MaxFiles == 2

URLs == {"u1", "u2"}
NoUrl == "-"
\* self.cache_metadata_file: the path of the index document, which is no
\* path uuid4 yields.
cache_metadata_file == 0
NoError == "none"
\* The index document before it is first written: os.path.exists is false.
NoFile == [exists |-> FALSE, parses |-> TRUE, contents |-> << >>]

Timestamps == 0..MaxTime
TTLs == 0..MaxTTL

\* ----------------------------------------------------- fetched documents
\* A parsed JSON document is a function from its top-level keys; the
\* metadata object is a function from the keys it carries.
Metadatas ==
    { [timestamp |-> ts, ttl |-> l] : ts \in Timestamps, l \in TTLs }
      \cup { [ttl |-> 1], [timestamp |-> 1] }

Documents ==
    { [metadata |-> md, value |-> 42] : md \in Metadatas } \cup { [value |-> 42] }

NoDocument == [none |-> 0]

\* The text of a file once any archive layer is taken off: either the
\* serialization of a document or text that json.loads rejects.
Texts ==
    { [valid |-> TRUE, doc |-> d] : d \in Documents }
      \cup { [valid |-> FALSE, doc |-> NoDocument] }

\* A file of the cache directory: its first two bytes, whether the bz2
\* stream behind a "BZ" signature decompresses, and the text it wraps.
RawFiles == { [magic |-> "{\"", intact |-> TRUE, text |-> t] : t \in Texts }

\* Archives: one that wraps a complete document, one that wraps text that is
\* no JSON, and one whose stream does not decompress.
Bz2Files ==
    { [magic |-> "BZ", intact |-> TRUE, text |-> t] :
        t \in { [valid |-> TRUE,
                 doc |-> [metadata |-> [timestamp |-> 0, ttl |-> MaxTTL], value |-> 42]],
                [valid |-> FALSE, doc |-> NoDocument] } }
      \cup { [magic |-> "BZ", intact |-> FALSE, text |-> [valid |-> FALSE, doc |-> NoDocument]] }

FileContents == RawFiles \cup Bz2Files

\* What open(filename, "wb") leaves behind when curl.perform() raises.
EmptyFile == [magic |-> "", intact |-> TRUE, text |-> [valid |-> FALSE, doc |-> NoDocument]]

NoTransfer == [ok |-> FALSE, content |-> EmptyFile]

\* The outcomes of one transfer: curl.perform() returns having written the
\* remote content, or raises.
Transfers ==
    { [ok |-> TRUE, content |-> c] : c \in FileContents }
      \cup { NoTransfer }

\* ------------------------------------------------------------------- state
VARIABLES
    file_cache,   \* self.file_cache: url -> CachedFile
    files,        \* the files of cache_dir other than the index: path -> content
    index,        \* the document file_cache.json, or NoFile
    now,          \* int(time.time())
    nextId,       \* the next value uuid.uuid4() yields
    last,         \* the get_from_url call that has just ended, if one has
    cache_dir,    \* what the path self.cache_dir is: "absent", "dir" or "file"
    udc,          \* the cache object: "none", "ready", or what __init__ raised
    returned      \* url -> the value get_from_url returned when it fetched
                  \* the file of the url's present entry

vars == <<file_cache, files, index, now, nextId, last, cache_dir, udc, returned>>

\* ------------------------------------------------------------ CachedFile
CachedFile(url, path, timestamp, ttl) ==
    [url |-> url, path |-> path, timestamp |-> timestamp, ttl |-> ttl]

\* is_expired with the operands of the subtraction exchanged.
is_expired_swapped(cf, t) == (cf.timestamp - t) > cf.ttl

\* is_expired with the comparison taken as >=.
is_expired_nonstrict(cf, t) == (t - cf.timestamp) >= cf.ttl

is_expired(cf, t) == (t - cf.timestamp) > cf.ttl

\* ------------------------------------------------------------ the index
\* CacheJSONEncoder.default: a CachedFile is written as its __dict__.
default(o) ==
    [k \in {"url", "path", "timestamp", "ttl"} |->
        CASE k = "url" -> o.url
          [] k = "path" -> o.path
          [] k = "timestamp" -> o.timestamp
          [] OTHER -> o.ttl]

json_dump(fc) ==
    [exists |-> TRUE, parses |-> TRUE, contents |-> [u \in DOMAIN fc |-> default(fc[u])]]

\* _load_file_cache handing ttl and timestamp to CachedFile in the wrong order.
_load_file_cache_misordered(doc) ==
    IF ~doc.exists THEN [raised |-> NoError, file_cache |-> << >>]
    ELSE IF ~doc.parses THEN [raised |-> "JSONDecodeError", file_cache |-> << >>]
    ELSE LET cache_contents == doc.contents
         IN  IF \E url \in DOMAIN cache_contents :
                    ~({"path", "timestamp", "ttl"} \subseteq DOMAIN cache_contents[url])
             THEN [raised |-> "KeyError", file_cache |-> << >>]
             ELSE [raised |-> NoError,
                   file_cache |->
                     [url \in DOMAIN cache_contents |->
                        CachedFile(url, cache_contents[url]["path"],
                                   cache_contents[url]["ttl"],
                                   cache_contents[url]["timestamp"])]]

\* _load_file_cache skipping what it cannot read: an empty map for a document
\* that is no JSON, and no entry for a record that lacks a field.
_load_file_cache_lenient(doc) ==
    IF ~doc.exists \/ ~doc.parses THEN [raised |-> NoError, file_cache |-> << >>]
    ELSE LET cache_contents == doc.contents
             whole == { url \in DOMAIN cache_contents :
                          {"path", "timestamp", "ttl"} \subseteq DOMAIN cache_contents[url] }
         IN  [raised |-> NoError,
              file_cache |->
                [url \in whole |->
                   CachedFile(url, cache_contents[url]["path"],
                              cache_contents[url]["timestamp"],
                              cache_contents[url]["ttl"])]]

\* _load_file_cache: an absent document gives the empty map; the url of a
\* loaded entry is the key it is stored under. json.load raises on a document
\* that is no JSON, and an entry without "path", "timestamp" or "ttl" raises
\* KeyError; the exception leaves __init__, so the map built so far belongs
\* to no object.
_load_file_cache(doc) ==
    IF ~doc.exists THEN [raised |-> NoError, file_cache |-> << >>]
    ELSE IF ~doc.parses THEN [raised |-> "JSONDecodeError", file_cache |-> << >>]
    ELSE LET cache_contents == doc.contents
         IN  IF \E url \in DOMAIN cache_contents :
                    ~({"path", "timestamp", "ttl"} \subseteq DOMAIN cache_contents[url])
             THEN [raised |-> "KeyError", file_cache |-> << >>]
             ELSE [raised |-> NoError,
                   file_cache |->
                     [url \in DOMAIN cache_contents |->
                        CachedFile(url, cache_contents[url]["path"],
                                   cache_contents[url]["timestamp"],
                                   cache_contents[url]["ttl"])]]

\* _try_create_cache_dir: a path that exists and is no directory raises; a
\* path that does not exist is created.
_try_create_cache_dir(dir) ==
    IF dir = "file" THEN [raised |-> "Exception", cache_dir |-> dir]
    ELSE [raised |-> NoError, cache_dir |-> "dir"]

\* __init__: the directory first, then the index document.
__init__(dir, doc) ==
    LET c == _try_create_cache_dir(dir)
        l == _load_file_cache(doc)
    IN  IF c.raised # NoError
        THEN [raised |-> c.raised, cache_dir |-> c.cache_dir, file_cache |-> << >>]
        ELSE [raised |-> l.raised, cache_dir |-> c.cache_dir, file_cache |-> l.file_cache]

\* ------------------------------------------------- the course of a call
\* m is the machine while a call runs: the three stores, the uuid source,
\* the exception being raised (NoError while none is) and the ordered
\* record of the call's effects.
Event(op, url, path) == [op |-> op, url |-> url, path |-> path]

Log(m, op, url, path) == [m EXCEPT !.events = Append(@, Event(op, url, path))]

Raise(m, e) == [m EXCEPT !.raised = e]

Without(f, k) == [x \in DOMAIN f \ {k} |-> f[x]]

With(f, k, v) == [x \in DOMAIN f \cup {k} |-> IF x = k THEN v ELSE f[x]]

\* save_cache returning at its guard without writing the document.
save_cache_skipped(m) == m

save_cache(m) ==
    Log([m EXCEPT !.index = json_dump(m.file_cache)], "save", NoUrl, cache_metadata_file)

_is_bz2(f) == f.magic = "BZ"

\* _read_cached_file reading the bytes as they are when decompression fails.
_read_cached_file_fallback(fs, path) ==
    IF path \notin DOMAIN fs
    THEN [raised |-> "FileNotFoundError", text |-> [valid |-> FALSE, doc |-> NoDocument]]
    ELSE [raised |-> NoError, text |-> fs[path].text]

\* _read_cached_file: the value read, or the exception raised.
_read_cached_file(fs, path) ==
    IF path \notin DOMAIN fs
    THEN [raised |-> "FileNotFoundError", text |-> [valid |-> FALSE, doc |-> NoDocument]]
    ELSE IF _is_bz2(fs[path]) /\ ~fs[path].intact
    THEN [raised |-> "DecompressFailed", text |-> [valid |-> FALSE, doc |-> NoDocument]]
    ELSE [raised |-> NoError, text |-> fs[path].text]

json_loads(r) ==
    IF r.raised # NoError THEN [raised |-> r.raised, doc |-> NoDocument]
    ELSE IF ~r.text.valid THEN [raised |-> "JSONDecodeError", doc |-> NoDocument]
    ELSE [raised |-> NoError, doc |-> r.text.doc]

\* _get_file_metadata answering a default where the section is missing.
_get_file_metadata_defaulting(fs, path) ==
    LET json_data == json_loads(_read_cached_file(fs, path))
    IN  IF json_data.raised # NoError
        THEN [raised |-> json_data.raised, metadata |-> NoDocument]
        ELSE IF "metadata" \notin DOMAIN json_data.doc
        THEN [raised |-> NoError, metadata |-> [timestamp |-> 0, ttl |-> 0]]
        ELSE [raised |-> NoError, metadata |-> json_data.doc.metadata]

_get_file_metadata(fs, path) ==
    LET json_data == json_loads(_read_cached_file(fs, path))
    IN  IF json_data.raised # NoError
        THEN [raised |-> json_data.raised, metadata |-> NoDocument]
        ELSE IF "metadata" \notin DOMAIN json_data.doc
        THEN [raised |-> "MetadataMissing", metadata |-> NoDocument]
        ELSE [raised |-> NoError, metadata |-> json_data.doc.metadata]

\* _download with the transfer's exception swallowed.
_download_swallowing(m, download_url, filename, tr) ==
    LET opened == Log([m EXCEPT !.files = With(@, filename, EmptyFile)],
                      "open", download_url, filename)
        performed == Log(opened, "perform", download_url, filename)
    IN  IF tr.ok
        THEN [performed EXCEPT !.files = With(@, filename, tr.content)]
        ELSE performed

\* _download removing the destination when the transfer raises.
_download_cleaning(m, download_url, filename, tr) ==
    LET opened == Log([m EXCEPT !.files = With(@, filename, EmptyFile)],
                      "open", download_url, filename)
        performed == Log(opened, "perform", download_url, filename)
    IN  IF tr.ok
        THEN [performed EXCEPT !.files = With(@, filename, tr.content)]
        ELSE Raise([performed EXCEPT !.files = Without(@, filename)],
                   "DownloadFailed")

\* _download: the destination is opened for writing, which creates it,
\* before the transfer runs; a transfer that raises leaves the file behind.
_download(m, download_url, filename, tr) ==
    LET opened == Log([m EXCEPT !.files = With(@, filename, EmptyFile)],
                      "open", download_url, filename)
        performed == Log(opened, "perform", download_url, filename)
    IN  IF tr.ok
        THEN [performed EXCEPT !.files = With(@, filename, tr.content)]
        ELSE Raise(performed, "DownloadFailed")

\* _download_and_cache_file with the metadata's two fields exchanged.
_download_and_cache_file_swapped(m, url, tr) ==
    LET downloaded_file_path == m.nextId
        d == _download([m EXCEPT !.nextId = @ + 1], url, downloaded_file_path, tr)
        md == _get_file_metadata(d.files, downloaded_file_path)
    IN  IF d.raised # NoError THEN d
        ELSE IF md.raised # NoError THEN Raise(d, md.raised)
        ELSE IF {"timestamp", "ttl"} \subseteq DOMAIN md.metadata
        THEN save_cache(
                Log([d EXCEPT !.file_cache =
                        With(@, url, CachedFile(url, downloaded_file_path,
                                                md.metadata["ttl"],
                                                md.metadata["timestamp"]))],
                    "insert", url, downloaded_file_path))
        ELSE Raise(d, "KeyError")

_download_and_cache_file(m, url, tr) ==
    LET downloaded_file_path == m.nextId
        d == _download([m EXCEPT !.nextId = @ + 1], url, downloaded_file_path, tr)
        md == _get_file_metadata(d.files, downloaded_file_path)
    IN  IF d.raised # NoError THEN d
        ELSE IF md.raised # NoError THEN Raise(d, md.raised)
        ELSE IF {"timestamp", "ttl"} \subseteq DOMAIN md.metadata
        THEN save_cache(
                Log([d EXCEPT !.file_cache =
                        With(@, url, CachedFile(url, downloaded_file_path,
                                                md.metadata["timestamp"],
                                                md.metadata["ttl"]))],
                    "insert", url, downloaded_file_path))
        ELSE Raise(d, "KeyError")

\* _remove_expired_file emptying the map instead of deleting one key.
_remove_expired_file_clearing(m, cached_file) ==
    IF cached_file.path \notin DOMAIN m.files
    THEN Raise(m, "FileNotFoundError")
    ELSE Log(Log([m EXCEPT !.files = Without(@, cached_file.path),
                           !.file_cache = << >>],
                 "remove", cached_file.url, cached_file.path),
             "del", cached_file.url, cached_file.path)

\* _remove_expired_file removing, with the expired file, every file of the
\* directory that no entry refers to.
_remove_expired_file_sweeping(m, cached_file) ==
    IF cached_file.path \notin DOMAIN m.files
    THEN Raise(m, "FileNotFoundError")
    ELSE LET kept == { m.file_cache[u].path : u \in DOMAIN m.file_cache \ {cached_file.url} }
         IN  Log(Log([m EXCEPT !.files = [p \in DOMAIN m.files \cap kept |-> m.files[p]],
                               !.file_cache = Without(@, cached_file.url)],
                     "remove", cached_file.url, cached_file.path),
                 "del", cached_file.url, cached_file.path)

\* _remove_expired_file: os.remove raises when the file is gone, and the
\* entry is then not deleted.
_remove_expired_file(m, cached_file) ==
    IF cached_file.path \notin DOMAIN m.files
    THEN Raise(m, "FileNotFoundError")
    ELSE Log(Log([m EXCEPT !.files = Without(@, cached_file.path),
                           !.file_cache = Without(@, cached_file.url)],
                 "remove", cached_file.url, cached_file.path),
             "del", cached_file.url, cached_file.path)

\* Line 111 calls self._cache_file(url); the class defines no attribute of
\* that name, so the call raises AttributeError.
_cache_file(m, url, tr) == Raise(m, "AttributeError")

\* _get_cached_file_path fetching the replacement before it evicts.
_get_cached_file_path_fetch_first(m, url, t, tr) ==
    IF url \in DOMAIN m.file_cache
    THEN IF ~is_expired(m.file_cache[url], t)
         THEN m
         ELSE LET stale == m.file_cache[url]
                  d == _download_and_cache_file(m, url, tr)
              IN  IF d.raised # NoError THEN d
                  ELSE Log([d EXCEPT !.files = Without(@, stale.path)],
                           "remove", stale.url, stale.path)
    ELSE _download_and_cache_file(m, url, tr)

_get_cached_file_path(m, url, t, tr) ==
    IF url \in DOMAIN m.file_cache
    THEN IF ~is_expired(m.file_cache[url], t)
         THEN m
         ELSE LET r == _remove_expired_file(m, m.file_cache[url])
              IN  IF r.raised # NoError THEN r ELSE _cache_file(r, url, tr)
    ELSE _download_and_cache_file(m, url, tr)

\* get_from_url evicting the entry whose file it could not decode.
get_from_url_healing(m, url, t, tr) ==
    LET p == _get_cached_file_path(m, url, t, tr)
        json_data == json_loads(_read_cached_file(p.files, p.file_cache[url].path))
    IN  IF p.raised # NoError THEN p
        ELSE IF json_data.raised # NoError
        THEN Raise(_remove_expired_file(p, p.file_cache[url]), json_data.raised)
        ELSE [p EXCEPT !.json_data = json_data.doc]

\* get_from_url answering, after a download, the metadata section that
\* _get_file_metadata parsed instead of decoding the file again.
get_from_url_metadata_on_miss(m, url, t, tr) ==
    LET p == _get_cached_file_path(m, url, t, tr)
        json_data == json_loads(_read_cached_file(p.files, p.file_cache[url].path))
    IN  IF p.raised # NoError THEN p
        ELSE IF json_data.raised # NoError THEN Raise(p, json_data.raised)
        ELSE IF p.events # << >>
        THEN [p EXCEPT !.json_data = [metadata |-> json_data.doc.metadata]]
        ELSE [p EXCEPT !.json_data = json_data.doc]

get_from_url(m, url, t, tr) ==
    LET p == _get_cached_file_path(m, url, t, tr)
        json_data == json_loads(_read_cached_file(p.files, p.file_cache[url].path))
    IN  IF p.raised # NoError THEN p
        ELSE IF json_data.raised # NoError THEN Raise(p, json_data.raised)
        ELSE [p EXCEPT !.json_data = json_data.doc]

\* ----------------------------------------------------------------- actions
Machine ==
    [file_cache |-> file_cache, files |-> files, index |-> index, nextId |-> nextId,
     raised |-> NoError, events |-> << >>, json_data |-> NoDocument]

Idle ==
    [url |-> NoUrl, at |-> 0, raised |-> NoError, events |-> << >>,
     json_data |-> NoDocument,
     pre |-> [file_cache |-> << >>, files |-> << >>, index |-> NoFile]]

\* The first USTDownloadCache(logger) of a home directory without .ust_cache.
Init ==
    /\ cache_dir = __init__("absent", NoFile).cache_dir
    /\ udc = "ready"
    /\ file_cache = __init__("absent", NoFile).file_cache
    /\ files = << >>
    /\ index = NoFile
    /\ now = 0
    /\ nextId = 1
    /\ last = Idle
    /\ returned = << >>

\* udc.get_from_url(url), with the outcome of the transfer it may start.
\* Calls that would draw a uuid stop once MaxFiles files have been created;
\* a call that finds an entry reaches no transfer, so none is drawn for it.
GetFromUrl(url, tr) ==
    /\ udc = "ready"
    /\ url \notin DOMAIN file_cache => nextId <= MaxFiles
    /\ url \in DOMAIN file_cache => tr = NoTransfer
    /\ LET m == get_from_url(Machine, url, now, tr)
           evicted == \E i \in DOMAIN m.events : m.events[i].op = "del"
           inserted == \E i \in DOMAIN m.events : m.events[i].op = "insert"
       IN  /\ file_cache' = m.file_cache
           /\ files' = m.files
           /\ index' = m.index
           /\ nextId' = m.nextId
           /\ last' = [url |-> url, at |-> now, raised |-> m.raised,
                       events |-> m.events, json_data |-> m.json_data,
                       pre |-> [file_cache |-> file_cache, files |-> files,
                                index |-> index]]
           /\ returned' = IF inserted /\ m.raised = NoError
                          THEN With(returned, url, m.json_data)
                          ELSE IF evicted \/ inserted THEN Without(returned, url)
                          ELSE returned
    /\ UNCHANGED <<now, cache_dir, udc>>

\* udc.save_cache(), called by the owner of the cache.
SaveCache ==
    /\ udc = "ready"
    /\ index' = save_cache(Machine).index
    /\ last' = Idle
    /\ UNCHANGED <<file_cache, files, now, nextId, cache_dir, udc, returned>>

\* A new process: USTDownloadCache(logger) checks the directory and loads
\* the index document; when __init__ raises there is no cache object.
Restart ==
    /\ LET o == __init__(cache_dir, index)
       IN  /\ cache_dir' = o.cache_dir
           /\ udc' = IF o.raised = NoError THEN "ready" ELSE o.raised
           /\ file_cache' = o.file_cache
    /\ last' = Idle
    /\ UNCHANGED <<files, index, now, nextId, returned>>

\* The wall clock advances.
Tick ==
    /\ now < MaxTime
    /\ now' = now + 1
    /\ last' = Idle
    /\ UNCHANGED <<file_cache, files, index, nextId, cache_dir, udc, returned>>

\* ----------------------------------------------- the index on its own
\* Every store with well-formed entries: each entry under its own url, with
\* a path uuid4 can yield and an integer timestamp and ttl.
Entries(url) ==
    { CachedFile(url, p, ts, l) : p \in 1..MaxFiles, ts \in Timestamps, l \in TTLs }

Stores ==
    UNION { { fc \in [D -> UNION { Entries(u) : u \in D }] :
                \A u \in D : fc[u] \in Entries(u) } : D \in SUBSET URLs }

\* A cache object holding any well-formed store, its document not yet written.
InitRoundTrip ==
    /\ cache_dir = "dir"
    /\ udc = "ready"
    /\ file_cache \in Stores
    /\ files = << >>
    /\ index = NoFile
    /\ now = 0
    /\ nextId = 1
    /\ last = Idle
    /\ returned = << >>

NextRoundTrip ==
    \/ SaveCache
    \/ Restart

SpecRoundTrip == InitRoundTrip /\ [][NextRoundTrip]_vars

\* ------------------------------------------------------ initialization
\* The records an index document may hold under a url: those save_cache
\* writes, and records with one of the four fields missing.
Fields == {"url", "path", "timestamp", "ttl"}

EntryDocs(url) ==
    { default(e) : e \in Entries(url) }
      \cup { [k \in Fields \ {x} |-> default(CachedFile(url, 1, 0, 0))[k]] : x \in Fields }

IndexDocs ==
    { NoFile, [exists |-> TRUE, parses |-> FALSE, contents |-> << >>] }
      \cup { [exists |-> TRUE, parses |-> TRUE, contents |-> c] :
               c \in UNION { { d \in [D -> UNION { EntryDocs(u) : u \in D }] :
                                 \A u \in D : d[u] \in EntryDocs(u) } : D \in SUBSET URLs } }

\* Before the first USTDownloadCache(logger): what .ust_cache is, and the
\* index document inside it when it is a directory.
InitEnv ==
    /\ cache_dir \in {"absent", "dir", "file"}
    /\ index \in IndexDocs
    /\ cache_dir # "dir" => index = NoFile
    /\ udc = "none"
    /\ file_cache = << >>
    /\ files = << >>
    /\ now = 0
    /\ nextId = 1
    /\ last = Idle
    /\ returned = << >>

SpecInit == InitEnv /\ [][Restart]_vars

\* ------------------------------------------- one entry over several calls
\* The wall clock advances between two calls; the record of the call that
\* ended before is kept, to set the next call against it.
KeepTick ==
    /\ now < MaxTime
    /\ now' = now + 1
    /\ UNCHANGED <<file_cache, files, index, nextId, last, cache_dir, udc, returned>>

\* Transfers that deliver a plain document with its metadata.
CachedTransfers ==
    { tr \in Transfers :
        /\ tr.ok
        /\ tr.content \in RawFiles
        /\ tr.content.text.valid
        /\ "metadata" \in DOMAIN tr.content.text.doc
        /\ DOMAIN tr.content.text.doc.metadata = {"timestamp", "ttl"} }

NextClock ==
    \/ \E url \in URLs, tr \in CachedTransfers \cup {NoTransfer} : GetFromUrl(url, tr)
    \/ KeepTick

SpecClock == Init /\ [][NextClock]_vars

\* --------------------------------------------- a cached file gone bad
\* What a cached file may be found to hold later: an archive whose stream
\* does not decompress, or plain text that is no JSON.
DamagedFiles ==
    { f \in FileContents : ~f.text.valid /\ (f.magic = "BZ" => ~f.intact) }

\* The file of an entry is damaged on disk, outside the cache's control.
Damage(path, f) ==
    /\ path \in DOMAIN files
    /\ \E u \in DOMAIN file_cache : file_cache[u].path = path
    /\ files[path] # f
    /\ files' = [files EXCEPT ![path] = f]
    /\ last' = Idle
    /\ UNCHANGED <<file_cache, index, now, nextId, cache_dir, udc, returned>>

NextDisk ==
    \/ \E url \in URLs, tr \in CachedTransfers \cup {NoTransfer} : GetFromUrl(url, tr)
    \/ \E path \in 1..MaxFiles, f \in DamagedFiles : Damage(path, f)
    \/ KeepTick

SpecDisk == Init /\ [][NextDisk]_vars

Next ==
    \/ \E url \in URLs, tr \in Transfers : GetFromUrl(url, tr)
    \/ SaveCache
    \/ Restart
    \/ Tick

Spec == Init /\ [][Next]_vars

\* ------------------------------------------------- reading the last call
Called == last.url # NoUrl

Count(op) == Cardinality({ i \in DOMAIN last.events : last.events[i].op = op })

\* The entry the call found for its url, when it found one.
PreCached == Called /\ last.url \in DOMAIN last.pre.file_cache

PreEntry == last.pre.file_cache[last.url]

PreExpired == PreCached /\ (last.at - PreEntry.timestamp) > PreEntry.ttl

PreFresh == PreCached /\ (last.at - PreEntry.timestamp) <= PreEntry.ttl

\* The paths the call's transfers wrote to.
FetchedPaths == { last.events[i].path : i \in { j \in DOMAIN last.events :
                                                last.events[j].op = "perform" } }

Referenced == { file_cache[u].path : u \in DOMAIN file_cache }

OthersUnchanged ==
    \A u \in (DOMAIN last.pre.file_cache \cup DOMAIN file_cache) \ {last.url} :
        /\ u \in DOMAIN last.pre.file_cache
        /\ u \in DOMAIN file_cache
        /\ file_cache[u] = last.pre.file_cache[u]

\* ------------------------------------------------------------------ claims

\* C1: a call for a source id whose entry is expired deletes the old file,
\* removes the old entry, performs exactly one fetch and returns with a
\* fresh entry for that source id in the store.
C1_ExpiredIsRefetched ==
    PreExpired =>
        /\ last.raised = NoError
        /\ PreEntry.path \notin DOMAIN files
        /\ Count("perform") = 1
        /\ last.url \in DOMAIN file_cache
        /\ file_cache[last.url].path # PreEntry.path
        /\ (last.at - file_cache[last.url].timestamp) <= file_cache[last.url].ttl

\* C2: a successful call for a source id with no entry performs exactly one
\* fetch, adds exactly the entry of that source id, leaves every other entry
\* as it was and writes the index document exactly once.
C2_ColdMissOnce ==
    (Called /\ ~PreCached /\ last.raised = NoError) =>
        /\ Count("perform") = 1
        /\ Count("insert") = 1
        /\ DOMAIN file_cache = DOMAIN last.pre.file_cache \cup {last.url}
        /\ OthersUnchanged
        /\ Count("save") = 1
        /\ index.exists
        /\ DOMAIN index.contents = DOMAIN file_cache

C2_Witness ==
    /\ Called /\ ~PreCached /\ last.raised = NoError
    /\ DOMAIN last.pre.file_cache # {}
    /\ Count("save") = 1

\* C3: a call for a source id whose entry is fresh, (now - capturedAt) <=
\* timeToLive, performs no fetch, deletes no file, leaves the store and the
\* index document unchanged and returns the document decoded from the
\* entry's file.
C3_FreshHit ==
    PreFresh =>
        /\ last.events = << >>
        /\ files = last.pre.files
        /\ file_cache = last.pre.file_cache
        /\ index = last.pre.index
        /\ last.raised = NoError
        /\ PreEntry.path \in DOMAIN files
        /\ last.json_data = files[PreEntry.path].text.doc

C3_Witness ==
    /\ PreFresh
    /\ last.at - PreEntry.timestamp = PreEntry.ttl
    /\ last.raised = NoError
    /\ "metadata" \in DOMAIN last.json_data

\* C4: a call that ends in an error leaves the in-memory store as it was
\* before the call.
C4_FailedCallLeavesStore ==
    (Called /\ last.raised # NoError) => file_cache = last.pre.file_cache

\* C5: in every reachable state, a restart that reloads the index included,
\* the path of every entry of the in-memory store is a file on disk.
C5_EntriesHaveFiles == Referenced \subseteq DOMAIN files

\* C6: whenever a call has ended, with or without an error, the entries of
\* the index document are the entries of the in-memory store.
C6_IndexMatchesStore ==
    Called =>
        /\ DOMAIN index.contents = DOMAIN file_cache
        /\ \A u \in DOMAIN file_cache :
              /\ index.contents[u]["url"] = file_cache[u].url
              /\ index.contents[u]["path"] = file_cache[u].path
              /\ index.contents[u]["timestamp"] = file_cache[u].timestamp
              /\ index.contents[u]["ttl"] = file_cache[u].ttl

\* C7: when the fetched file parses as a document that lacks the metadata
\* section, or its timestamp or ttl, the call fails, adds no entry, does not
\* rewrite the index document, and the downloaded file stays on disk with no
\* entry referring to it.
LacksMetadata(f) ==
    /\ f.intact
    /\ f.text.valid
    /\ \/ "metadata" \notin DOMAIN f.text.doc
       \/ ~({"timestamp", "ttl"} \subseteq DOMAIN f.text.doc.metadata)

C7_MetadataMissing ==
    \A p \in FetchedPaths :
        (p \in DOMAIN files /\ LacksMetadata(files[p])) =>
            /\ last.raised # NoError
            /\ file_cache = last.pre.file_cache
            /\ last.url \notin DOMAIN file_cache
            /\ index = last.pre.index
            /\ Count("save") = 0
            /\ p \notin Referenced

C7_Witness ==
    /\ Called
    /\ \E p \in FetchedPaths :
          /\ p \in DOMAIN files
          /\ LacksMetadata(files[p])
          /\ "metadata" \in DOMAIN files[p].text.doc
          /\ p \notin Referenced
    /\ last.raised = "KeyError"

\* C8: no fetch for a source id starts while an entry of that source id, or
\* the file of the entry the call found expired, still exists: the file's
\* removal and the entry's deletion come first.
C8_EvictionBeforeFetch ==
    \A i \in DOMAIN last.events :
        (last.events[i].op \in {"open", "perform"} /\ PreCached) =>
            /\ \E j \in 1..(i - 1) :
                  /\ last.events[j].op = "remove"
                  /\ last.events[j].path = PreEntry.path
            /\ \E j \in 1..(i - 1) :
                  /\ last.events[j].op = "del"
                  /\ last.events[j].url = last.url

\* An expired entry has been evicted (the index document still names it, its
\* file is gone) and a later call for the same source id has fetched.
C8_Witness ==
    /\ Called /\ ~PreCached
    /\ Count("perform") = 1
    /\ index.exists
    /\ last.url \in DOMAIN index.contents
    /\ index.contents[last.url]["path"] \notin DOMAIN files
    /\ last.url \notin DOMAIN file_cache

\* C9: when the transfer fails to materialize content, the call ends with the
\* download error, has made exactly one transfer attempt, and adds no entry
\* to the store or to the index document.
C9_FetchFailed ==
    \A p \in FetchedPaths :
        (p \in DOMAIN files /\ files[p] = EmptyFile) =>
            /\ last.raised = "DownloadFailed"
            /\ Count("perform") = 1
            /\ file_cache = last.pre.file_cache
            /\ last.url \notin DOMAIN file_cache
            /\ index = last.pre.index

C9_Witness ==
    /\ Called
    /\ last.raised = "DownloadFailed"
    /\ \E p \in FetchedPaths : files[p] = EmptyFile
    /\ DOMAIN file_cache # {}

\* C10: the entry a successful fetch inserts has the timestamp and the ttl of
\* the fetched document's metadata, the requested source id, and the path of
\* the file the fetch has just written.
C10_EntryFromMetadata ==
    (Called /\ Count("insert") > 0) =>
        /\ last.url \in DOMAIN file_cache
        /\ LET e == file_cache[last.url]
           IN  /\ e.url = last.url
               /\ FetchedPaths = {e.path}
               /\ e.path \notin DOMAIN last.pre.files
               /\ e.path \in DOMAIN files
               /\ e.timestamp = files[e.path].text.doc.metadata.timestamp
               /\ e.ttl = files[e.path].text.doc.metadata.ttl

\* The inserted timestamp is neither the clock's value nor the ttl.
C10_Witness ==
    /\ Called /\ Count("insert") > 0
    /\ last.url \in DOMAIN file_cache
    /\ file_cache[last.url].timestamp # last.at
    /\ file_cache[last.url].timestamp # file_cache[last.url].ttl
    /\ file_cache[last.url].timestamp > 0

\* C11: saving a store of well-formed entries, loading the saved document and
\* saving again gives a store and a document equal in content to the first:
\* the same source ids and, per source id, the same url, path, timestamp, ttl.
SameContent(a, b) ==
    /\ DOMAIN a = DOMAIN b
    /\ \A u \in DOMAIN a :
          /\ a[u].url = b[u].url
          /\ a[u].path = b[u].path
          /\ a[u].timestamp = b[u].timestamp
          /\ a[u].ttl = b[u].ttl

C11_IndexRoundTrip ==
    LET saved == json_dump(file_cache)
        loaded == _load_file_cache(saved)
        again == json_dump(loaded.file_cache)
    IN  /\ loaded.raised = NoError
        /\ SameContent(loaded.file_cache, file_cache)
        /\ DOMAIN again.contents = DOMAIN file_cache
        /\ \A u \in DOMAIN file_cache :
              /\ again.contents[u]["url"] = u
              /\ again.contents[u]["path"] = file_cache[u].path
              /\ again.contents[u]["timestamp"] = file_cache[u].timestamp
              /\ again.contents[u]["ttl"] = file_cache[u].ttl
        /\ index.exists => SameContent(_load_file_cache(index).file_cache, file_cache)

\* A store of two entries with different timestamp and ttl, saved and loaded.
C11_Witness ==
    /\ index.exists
    /\ DOMAIN file_cache = URLs
    /\ \E u \in URLs : file_cache[u].timestamp # file_cache[u].ttl
    /\ \E u, v \in URLs : file_cache[u].path # file_cache[v].path
    /\ DOMAIN index.contents = URLs

\* C12: the decoding path is chosen by the file's first two bytes alone: with
\* the archive signature the stream is decompressed before it is parsed,
\* otherwise the bytes are parsed as they are. A file that carries the
\* signature and does not decompress fails the call with the decompression
\* error and is not parsed as raw content; content that is no JSON fails the
\* call.
DecodedPaths ==
    { p \in FetchedPaths : p \in DOMAIN files /\ files[p] # EmptyFile }
      \cup (IF PreFresh /\ PreEntry.path \in DOMAIN files THEN {PreEntry.path} ELSE {})

C12_Decoding ==
    \A p \in DecodedPaths :
        LET f == files[p]
            signed == f.magic = "BZ"
        IN  /\ (signed /\ ~f.intact) => last.raised = "DecompressFailed"
            /\ ~signed => last.raised # "DecompressFailed"
            /\ (~(signed /\ ~f.intact) /\ ~f.text.valid) => last.raised = "JSONDecodeError"
            /\ last.raised = NoError =>
                  /\ f.text.valid
                  /\ signed => f.intact
                  /\ last.json_data = f.text.doc
            /\ last.raised # NoError => last.json_data = NoDocument

C12_Witness ==
    /\ Called
    /\ last.raised = "DecompressFailed"
    /\ \E p \in DecodedPaths : files[p].magic = "BZ" /\ ~files[p].intact

\* C13: when the cache root exists and is no directory, initialization fails
\* and there is no usable cache object; when the index document does not
\* exist, initialization succeeds with an empty store; when the document
\* exists and cannot be parsed, or an entry lacks path, timestamp or ttl,
\* initialization fails and no empty or partial store is used.
Incomplete(doc) ==
    \E u \in DOMAIN doc.contents :
        ~({"path", "timestamp", "ttl"} \subseteq DOMAIN doc.contents[u])

C13_Initialization ==
    udc # "none" =>
        /\ cache_dir = "file" => udc = "Exception"
        /\ (cache_dir = "dir" /\ ~index.exists) => (udc = "ready" /\ file_cache = << >>)
        /\ (index.exists /\ ~index.parses) => udc = "JSONDecodeError"
        /\ (index.exists /\ index.parses /\ Incomplete(index)) => udc = "KeyError"
        /\ udc = "ready" => DOMAIN file_cache = DOMAIN index.contents
        /\ udc # "ready" =>
              /\ ~ENABLED SaveCache
              /\ \A url \in URLs, tr \in Transfers : ~ENABLED GetFromUrl(url, tr)

\* A document with one complete record and one that lacks its ttl.
C13_Witness ==
    /\ udc = "KeyError"
    /\ DOMAIN index.contents = URLs
    /\ \E u \in URLs : DOMAIN index.contents[u] = Fields
    /\ \E u \in URLs : DOMAIN index.contents[u] = Fields \ {"ttl"}

\* C14 (amended): per source id, an entry is added only while the source id has none,
\* an entry is removed only by a call for its source id that finds it expired,
\* a fresh entry is never removed, replaced or fetched again, and a call for
\* one source id leaves the entry and the file of every other source id as
\* they were. The entry added is fresh or already expired, as the fetched
\* metadata (or, at a restart, the index document) has it.
FileKept(path) ==
    path \in DOMAIN files => (path \in DOMAIN files' /\ files'[path] = files[path])

C14_Step ==
    \A u \in URLs :
        LET had == u \in DOMAIN file_cache
            has == u \in DOMAIN file_cache'
            call == last'.url
            ev == last'.events
        IN  /\ (had /\ ~has) =>
                  /\ call = u
                  /\ (now - file_cache[u].timestamp) > file_cache[u].ttl
            /\ (had /\ (now - file_cache[u].timestamp) <= file_cache[u].ttl) =>
                  /\ has
                  /\ file_cache'[u] = file_cache[u]
                  /\ FileKept(file_cache[u].path)
                  /\ call = u => \A i \in DOMAIN ev : ev[i].op \notin {"open", "perform"}
            /\ call = u =>
                  \A i \in DOMAIN ev :
                      ev[i].op = "insert" =>
                          \/ ~had
                          \/ \E j \in 1..(i - 1) : ev[j].op = "del" /\ ev[j].url = u
            /\ (has /\ (~had \/ file_cache'[u] # file_cache[u])) =>
                  /\ ~had
                  /\ call \in {u, NoUrl}
            /\ call \notin {u, NoUrl} =>
                  /\ had <=> has
                  /\ had => (file_cache'[u] = file_cache[u] /\ FileKept(file_cache[u].path))

C14_Transitions == [][C14_Step]_vars

\* C14 as stated: the transitions above, and Absent is left only for
\* Cached(fresh), so that an entry is fresh in the state it is added in.
C14_AddedIsFresh ==
    \A u \in URLs :
        (u \notin DOMAIN file_cache /\ u \in DOMAIN file_cache') =>
            (now' - file_cache'[u].timestamp) <= file_cache'[u].ttl

C14_OnlyTheCycle == [][C14_Step /\ C14_AddedIsFresh]_vars

\* A call has evicted the expired entry of one source id while the other
\* source id keeps its entry and its file.
C14_Witness ==
    /\ PreExpired
    /\ last.url \notin DOMAIN file_cache
    /\ \E u \in URLs \ {last.url} :
          /\ u \in DOMAIN file_cache
          /\ file_cache[u] = last.pre.file_cache[u]
          /\ file_cache[u].path \in DOMAIN files

\* C15: expiry is (now - capturedAt) > timeToLive, strictly, computed from the
\* clock at every lookup and stored nowhere: an entry with now - capturedAt
\* equal to timeToLive is served as fresh, and the unchanged entry that one
\* call served as fresh is treated as expired by a later call once the clock
\* has passed capturedAt + timeToLive.
ServedFresh(c) == c.url # NoUrl /\ c.raised = NoError /\ c.events = << >>

Evicting(c) ==
    /\ Len(c.events) >= 2
    /\ c.events[1].op = "remove"
    /\ c.events[2].op = "del"

C15_Lookup ==
    /\ \A u \in DOMAIN file_cache : DOMAIN file_cache[u] = Fields
    /\ index.exists => \A u \in DOMAIN index.contents : DOMAIN index.contents[u] = Fields
    /\ PreCached =>
          /\ (last.at - PreEntry.timestamp) <= PreEntry.ttl => ServedFresh(last)
          /\ (last.at - PreEntry.timestamp) > PreEntry.ttl =>
                (~ServedFresh(last) /\ Evicting(last))

C15_NextCall ==
    \A u \in URLs :
        (/\ last.url = u
         /\ ServedFresh(last)
         /\ now' = now
         /\ last'.url = u) =>
            LET e == last.pre.file_cache[u]
            IN  /\ last'.pre.file_cache[u] = e
                /\ (now - e.timestamp) <= e.ttl => ServedFresh(last')
                /\ (now - e.timestamp) > e.ttl => Evicting(last')

C15_LazyExpiry == [](C15_Lookup) /\ [][C15_NextCall]_vars

\* An entry was served as fresh with now - capturedAt equal to timeToLive,
\* and the clock has since passed capturedAt + timeToLive.
C15_Witness ==
    /\ ServedFresh(last)
    /\ PreCached
    /\ last.at - PreEntry.timestamp = PreEntry.ttl
    /\ last.url \in DOMAIN file_cache
    /\ file_cache[last.url] = PreEntry
    /\ (now - PreEntry.timestamp) > PreEntry.ttl

\* C16: a call deletes no file but the file of the expired entry it evicts,
\* changes no file it found, writes one new file per fetch, and rewrites the
\* index document only when it adds or removes an entry.
C16_SideEffects ==
    Called =>
        LET deleted == DOMAIN last.pre.files \ DOMAIN files
            created == DOMAIN files \ DOMAIN last.pre.files
        IN  /\ deleted \subseteq (IF PreExpired THEN {PreEntry.path} ELSE {})
            /\ \A p \in DOMAIN last.pre.files \cap DOMAIN files :
                  files[p] = last.pre.files[p]
            /\ created = FetchedPaths
            /\ Cardinality(created) = Count("perform")
            /\ Count("save") <= 1
            /\ file_cache = last.pre.file_cache =>
                  (Count("save") = 0 /\ index = last.pre.index)

\* An eviction has deleted the expired entry's file and left a file that no
\* entry refers to where it was.
C16_Witness ==
    /\ PreExpired
    /\ PreEntry.path \in DOMAIN last.pre.files
    /\ PreEntry.path \notin DOMAIN files
    /\ \E p \in DOMAIN files :
          /\ p \notin Referenced
          /\ p \in DOMAIN last.pre.files

\* C17: decoding is the last step of a call on the hit and on the miss path
\* and changes neither the file nor the store: the value a call returns is
\* the document of the entry's file, and a fresh hit returns the value that
\* the call which fetched the file returned.
C17_SameDecoding ==
    (Called /\ last.raised = NoError) =>
        /\ last.url \in DOMAIN file_cache
        /\ file_cache[last.url].path \in DOMAIN files
        /\ last.json_data = files[file_cache[last.url].path].text.doc
        /\ last.url \in DOMAIN returned
        /\ last.json_data = returned[last.url]
        /\ PreFresh =>
              /\ files = last.pre.files
              /\ file_cache = last.pre.file_cache

\* A fresh hit on an archive returns what the fetching call returned.
C17_Witness ==
    /\ PreFresh
    /\ last.raised = NoError
    /\ files[PreEntry.path].magic = "BZ"
    /\ last.json_data = returned[last.url]
    /\ "value" \in DOMAIN last.json_data

\* C18: with a transfer that always delivers a document with its metadata,
\* repeated calls for a source id return successfully in the end, from every
\* reachable state and at every later clock value: no source id stays
\* unservable. Three calls in a row are more than a recovery takes (an
\* eviction that fails, then a cold fetch).
RECURSIVE SucceedsWithin(_, _, _, _, _)
SucceedsWithin(k, m, url, t, tr) ==
    IF k = 0 THEN FALSE
    ELSE LET r == get_from_url([m EXCEPT !.raised = NoError, !.events = << >>],
                               url, t, tr)
         IN  r.raised = NoError \/ SucceedsWithin(k - 1, r, url, t, tr)

C18_Recoverable ==
    udc = "ready" =>
        \A url \in URLs, t \in now..MaxTime, tr \in CachedTransfers :
            SucceedsWithin(3, Machine, url, t, tr)

\* C19: when the file of a fresh entry does not decompress or parse, the call
\* fails, fetches nothing, evicts nothing and leaves the entry and the file
\* in place; a later call for the source id fails the same way while the
\* entry is fresh, and evicts the entry once it is expired.
Undecodable(f) == (f.magic = "BZ" /\ ~f.intact) \/ ~f.text.valid

FailedHit(c) ==
    /\ c.url # NoUrl
    /\ c.url \in DOMAIN c.pre.file_cache
    /\ (c.at - c.pre.file_cache[c.url].timestamp) <= c.pre.file_cache[c.url].ttl
    /\ c.pre.file_cache[c.url].path \in DOMAIN c.pre.files
    /\ Undecodable(c.pre.files[c.pre.file_cache[c.url].path])

C19_FailedHitChangesNothing ==
    FailedHit(last) =>
        /\ last.raised =
              (IF last.pre.files[PreEntry.path].magic = "BZ" THEN "DecompressFailed"
               ELSE "JSONDecodeError")
        /\ last.events = << >>
        /\ file_cache = last.pre.file_cache
        /\ files = last.pre.files
        /\ index = last.pre.index

C19_NextCall ==
    \A u \in URLs :
        (/\ FailedHit(last)
         /\ last.url = u
         /\ now' = now
         /\ last'.url = u) =>
            LET e == last.pre.file_cache[u]
            IN  /\ last'.pre.file_cache[u] = e
                /\ (now - e.timestamp) <= e.ttl =>
                      (last'.raised = last.raised /\ last'.events = << >>)
                /\ (now - e.timestamp) > e.ttl => Evicting(last')

C19_NoSelfHealing == [](C19_FailedHitChangesNothing) /\ [][C19_NextCall]_vars

\* A hit on an archive that does not decompress has failed, the clock has
\* advanced and the entry is still fresh.
C19_Witness ==
    /\ FailedHit(last)
    /\ last.raised = "DecompressFailed"
    /\ now > last.at
    /\ file_cache[last.url] = PreEntry
    /\ (now - PreEntry.timestamp) <= PreEntry.ttl

\* C20: the download helper creates the destination file before the transfer
\* starts, so a call whose transfer fails leaves a new file in the cache
\* directory that no store entry refers to; and no step makes the number of
\* files of the directory that no store entry refers to smaller.
Unreferenced == DOMAIN files \ Referenced

OpenedBeforePerform ==
    \A i \in DOMAIN last.events :
        last.events[i].op = "perform" =>
            /\ i > 1
            /\ last.events[i - 1].op = "open"
            /\ last.events[i - 1].path = last.events[i].path

C20_FailedFetchLeavesFile ==
    /\ Called => OpenedBeforePerform
    /\ (Called /\ last.raised = "DownloadFailed") =>
          /\ FetchedPaths # {}
          /\ \A p \in FetchedPaths :
                /\ p \notin DOMAIN last.pre.files
                /\ p \in DOMAIN files
                /\ p \in Unreferenced

C20_NeverFewer == Cardinality(Unreferenced') >= Cardinality(Unreferenced)

C20_Orphans == [](C20_FailedFetchLeavesFile) /\ [][C20_NeverFewer]_vars

\* Two transfers have failed and both destinations are still in the
\* directory, referred to by no entry.
C20_Witness ==
    /\ Called
    /\ last.raised = "DownloadFailed"
    /\ Cardinality(Unreferenced) = 2
    /\ \A p \in Unreferenced : files[p] = EmptyFile

====
